---- MODULE Spec2Model ----
(***************************************************************************)
(* Model of cmd/scepserver/scepserver.go: the CA bootstrap (caMain and the *)
(* depot write helpers), the server start-up in main (configuration        *)
(* resolution, signer chain composition) and the listener / signal-watcher *)
(* race on the result channel.                                             *)
(***************************************************************************)
EXTENDS Integers, Sequences, FiniteSets, TLC

VARIABLES
    depot,      \* the depot directory on disk: [dir, files]
    root,       \* whether the process runs as uid 0 (bypasses file mode checks)
    runs,       \* number of runs made against the depot so far
    last,       \* the most recent run made against the depot
    prev,       \* a summary of the run before it
    cfg,        \* the command line and environment of a server process
    pc,         \* where main is
    exitCode,   \* the status the process exited with, -1 while it runs
    httpAddr,   \* the resolved listen address
    opts,       \* the values main has read from its flags so far
    chain,      \* the composed signer, outermost stage first
    errs,       \* the result channel (make(chan error, 2))
    pcSrv,      \* where the listener / adapter goroutine is
    pcSig,      \* where the signal-watcher goroutine is
    sigs,       \* number of SIGINTs delivered to the process
    cause,      \* what main logged as "terminated"
    served,     \* number of signing requests handled
    lastReq,    \* the most recent signing request
    lastSign    \* how the chain handled it: the stages evaluated, the result

(***************************************************************************)
(* Bounds of the model.                                                    *)
(***************************************************************************)
\* number of runs (ca invocations and wipes) made against one depot
MaxRuns == 2
\* number of distinct non-empty CA materials a caller can supply
NumMaterials == 2
\* number of SIGINTs delivered to one server process
MaxSignals == 2
\* number of signing requests handled by one signer chain
MaxRequests == 3

(***************************************************************************)
(* The depot directory and its two artifacts.                              *)
(***************************************************************************)
FileNames == {"ca.key", "ca.pem"}

\* file modes passed to os.OpenFile / ioutil.WriteFile / os.MkdirAll
Perm0400 == 256
Perm0644 == 420

\* contents of an artifact: origin "none" is zero bytes; id names the key pair
\* the bytes belong to (the material supplied, or the run that generated it);
\* pass is the password a generated key was encrypted with
NoData == [origin |-> "none", id |-> 0, pass |-> ""]
Material(origin, id) == [origin |-> origin, id |-> id, pass |-> ""]

\* x509.EncryptPEMBlock(rand.Reader, ..., password, x509.PEMCipher3DES)
EncryptedKey(id, password) == [origin |-> "gen", id |-> id, pass |-> password]

NoFile == [exists |-> FALSE, data |-> NoData, perm |-> 0, by |-> 0]

EmptyDepot(dirExists) ==
    [dir |-> dirExists, files |-> [n \in FileNames |-> NoFile]]

Exists(d, name) == d.files[name].exists

\* the owner's write bit of a mode (0200)
OwnerWritable(perm) == (perm \div 128) % 2 = 1

(***************************************************************************)
(* Results of the helpers: the depot they leave and the error returned.    *)
(***************************************************************************)
Ret(d, err) == [d |-> d, err |-> err]

\* A fault is the step of the run that the environment makes fail:
\* <<operation, artifact>>, or NoFault.
NoFault == <<"none", "none">>

\* os.MkdirAll(depot, 0755): nil when the directory exists; otherwise it
\* creates it, unless the environment makes it fail.
MkdirFails(d, f, name) == ~d.dir /\ f = <<"mkdir", name>>
MkdirAll(d) == [d EXCEPT !.dir = TRUE]

\* os.OpenFile(name, O_WRONLY|O_CREATE|O_EXCL, perm) on an absent file
CreateFile(d, name, perm, run) ==
    [d EXCEPT !.files[name] =
        [exists |-> TRUE, data |-> NoData, perm |-> perm, by |-> run]]

\* os.Remove(name)
Remove(d, name) == [d EXCEPT !.files[name] = NoFile]

\* the bytes written through an open handle
WriteData(d, name, data, run) ==
    [d EXCEPT !.files[name].data = data, !.files[name].by = run]

(***************************************************************************)
(* storeFileInDepot: exclusive create, then write; the artifact is removed *)
(* when the write fails.                                                   *)
(***************************************************************************)
storeFileInDepot(d, filename, data, f, run) ==
    IF MkdirFails(d, f, filename) THEN Ret(d, "mkdir")
    ELSE LET d1 == MkdirAll(d) IN
         IF Exists(d1, filename) THEN Ret(d1, "EEXIST")
         ELSE LET d2 == CreateFile(d1, filename, Perm0400, run) IN
              IF f = <<"write", filename>>
              THEN Ret(Remove(d2, filename), "write")
              ELSE Ret(WriteData(d2, filename, data, run), "nil")

(***************************************************************************)
(* ioutil.WriteFile(name, data, perm): open with O_WRONLY|O_CREATE|O_TRUNC *)
(* (an existing file is truncated and keeps its mode; opening an existing  *)
(* file without the owner's write bit fails unless the caller is root),    *)
(* then write.                                                             *)
(***************************************************************************)
WriteFile(d, name, data, perm, f, run, isRoot) ==
    IF Exists(d, name) /\ ~OwnerWritable(d.files[name].perm) /\ ~isRoot
    THEN Ret(d, "EACCES")
    ELSE LET d1 == IF Exists(d, name)
                   THEN WriteData(d, name, NoData, run)
                   ELSE CreateFile(d, name, perm, run)
         IN  IF f = <<"write", name>>
             THEN Ret(d1, "write")
             ELSE Ret(WriteData(d1, name, data, run), "nil")

(***************************************************************************)
(* copyFileToDepot: read the source file and write it into the depot.      *)
(***************************************************************************)
copyFileToDepot(d, sourceData, filename, f, run, isRoot) ==
    IF MkdirFails(d, f, filename) THEN Ret(d, "mkdir")
    ELSE LET d1 == MkdirAll(d) IN
         IF f = <<"read", filename>> THEN Ret(d1, "read")
         ELSE WriteFile(d1, filename, sourceData, Perm0644, f, run, isRoot)

(***************************************************************************)
(* createKey: exclusive create of ca.key, generate the RSA key, encrypt it *)
(* with the password, PEM-encode it into the file.                         *)
(***************************************************************************)
\* faulty variant: ca.key is opened without O_EXCL
createKey_NoExcl(d, password, f, run) ==
    IF MkdirFails(d, f, "ca.key") THEN Ret(d, "mkdir")
    ELSE LET d2 == CreateFile(MkdirAll(d), "ca.key", Perm0400, run) IN
         IF f \in {<<"keygen", "ca.key">>, <<"encrypt", "ca.key">>}
         THEN Ret(d2, f[1])
         ELSE IF f = <<"encode", "ca.key">>
              THEN Ret(Remove(d2, "ca.key"), "encode")
         ELSE Ret(WriteData(d2, "ca.key",
                            EncryptedKey(run, password), run), "nil")

createKey(d, password, f, run) ==
    IF MkdirFails(d, f, "ca.key") THEN Ret(d, "mkdir")
    ELSE LET d1 == MkdirAll(d) IN
         IF Exists(d1, "ca.key") THEN Ret(d1, "EEXIST")
         ELSE LET d2 == CreateFile(d1, "ca.key", Perm0400, run) IN
              IF f = <<"keygen", "ca.key">> THEN Ret(d2, "keygen")
              ELSE IF f = <<"encrypt", "ca.key">> THEN Ret(d2, "encrypt")
              ELSE IF f = <<"encode", "ca.key">>
                   THEN Ret(Remove(d2, "ca.key"), "encode")
              ELSE Ret(WriteData(d2, "ca.key",
                            EncryptedKey(run, password), run), "nil")

(***************************************************************************)
(* createCertificateAuthority: self-sign a certificate for the key and     *)
(* store it as ca.pem.                                                     *)
(***************************************************************************)
createCertificateAuthority(d, keyId, f, run) ==
    IF f = <<"selfsign", "ca.pem">> THEN Ret(d, "selfsign")
    ELSE storeFileInDepot(d, "ca.pem", Material("gen", keyId), f, run)

(***************************************************************************)
(* caMain: the bootstrap.  in holds the four material flags; 0 is the      *)
(* empty string, m > 0 a non-empty value (for the path flags: the path of  *)
(* a source file that holds material m), and the value of -key-password.   *)
(***************************************************************************)
CaRet(r, strategy) ==
    [d |-> r.d, err |-> r.err, strategy |-> strategy,
     status |-> IF r.err = "nil" THEN 0 ELSE 1]

\* faulty variant: either inline input selects the inline strategy
inlineSelected_Either(in) == in.inlineCert # 0 \/ in.inlineKey # 0

\* *flInlineCert != "" && *flInlineKey != ""
inlineSelected(in) == in.inlineCert # 0 /\ in.inlineKey # 0

\* *flPathCert != "" && *flPathKey != ""
pathSelected(in) == in.pathCert # 0 /\ in.pathKey # 0

caMain(d, in, f, run, isRoot) ==
    IF inlineSelected(in)
    THEN LET r1 == storeFileInDepot(d, "ca.pem",
                       Material("inline", in.inlineCert), f, run)
         IN  IF r1.err # "nil" THEN CaRet(r1, "inline")
             ELSE CaRet(storeFileInDepot(r1.d, "ca.key",
                       Material("inline", in.inlineKey), f, run), "inline")
    ELSE IF pathSelected(in)
    THEN LET r1 == copyFileToDepot(d, Material("path", in.pathCert),
                       "ca.pem", f, run, isRoot)
         IN  IF r1.err # "nil" THEN CaRet(r1, "path")
             ELSE CaRet(copyFileToDepot(r1.d, Material("path", in.pathKey),
                       "ca.key", f, run, isRoot), "path")
    ELSE LET r1 == createKey(d, in.keyPassword, f, run)
         IN  IF r1.err # "nil" THEN CaRet(r1, "generate")
             ELSE CaRet(createCertificateAuthority(r1.d, run, f, run),
                        "generate")

(***************************************************************************)
(* Flags and environment variables.  An optional string is Unset or        *)
(* Set(v): a flag absent from / present on the command line, an            *)
(* environment variable not exported / exported (possibly empty).          *)
(***************************************************************************)
Unset == <<>>
Set(v) == <<v>>
Opt(values) == {Unset} \cup {Set(v) : v \in values}

\* envString: the variable's value unless it is unset or empty
envString(env, def) ==
    IF env # Unset /\ env[1] # "" THEN env[1] ELSE def

\* the value of a string flag after flag.Parse: the command line's value,
\* else the default it was declared with
FlagValue(flag, def) == IF flag # Unset THEN flag[1] ELSE def

\* faulty variant: only the command line counts as set by the user
setByUser_FlagOnly(flag, env) == flag # Unset

\* setByUser: flag.Visit saw the flag, or os.LookupEnv finds the variable
setByUser(flag, env) == flag # Unset \/ env # Unset

\* the declared defaults of -http-addr and -port
DefaultPort == "8080"
flHTTPAddr(c) == FlagValue(c.addrFlag, envString(c.addrEnv, ""))
flPort(c) == FlagValue(c.portFlag, envString(c.portEnv, DefaultPort))

\* -capass, else SCEP_CA_PASS, else the empty password
flCAPass(c) == FlagValue(c.capassFlag, envString(c.capassEnv, ""))

\* faulty variant: the port is taken from the environment variable as exported
resolveAddr_RawPort(c) ==
    LET httpAddrSet == setByUser(c.addrFlag, c.addrEnv)
        portSet == setByUser(c.portFlag, c.portEnv)
    IN  IF httpAddrSet /\ portSet THEN [ok |-> FALSE, addr |-> ""]
        ELSE IF httpAddrSet THEN [ok |-> TRUE, addr |-> flHTTPAddr(c)]
        ELSE [ok |-> TRUE,
              addr |-> ":" \o FlagValue(c.portFlag,
                           IF c.portEnv # Unset THEN c.portEnv[1]
                           ELSE DefaultPort)]

\* main, lines 80-91: ok is FALSE where main exits with status 1
resolveAddr(c) ==
    LET httpAddrSet == setByUser(c.addrFlag, c.addrEnv)
        portSet == setByUser(c.portFlag, c.portEnv)
    IN  IF httpAddrSet /\ portSet THEN [ok |-> FALSE, addr |-> ""]
        ELSE IF httpAddrSet THEN [ok |-> TRUE, addr |-> flHTTPAddr(c)]
        ELSE [ok |-> TRUE, addr |-> ":" \o flPort(c)]

\* faulty variant: the conversion error is dropped and the zero value used
Atoi_IgnoreErr(str) ==
    CASE str = "0" -> [ok |-> TRUE, n |-> 0]
      [] str = "14" -> [ok |-> TRUE, n |-> 14]
      [] str = "365" -> [ok |-> TRUE, n |-> 365]
      [] OTHER -> [ok |-> TRUE, n |-> 0]

\* strconv.Atoi on the day counts a caller can pass
Atoi(str) ==
    CASE str = "0" -> [ok |-> TRUE, n |-> 0]
      [] str = "14" -> [ok |-> TRUE, n |-> 14]
      [] str = "365" -> [ok |-> TRUE, n |-> 365]
      [] OTHER -> [ok |-> FALSE, n |-> 0]

(***************************************************************************)
(* The depot package as main uses it (file.NewFileDepot, Depot.CA).        *)
(***************************************************************************)
\* file.NewFileDepot(path): fails when the depot cannot be opened
NewFileDepotFails(d) == ~d.dir

\* Depot.CA(pass): needs a readable certificate and key, and the password
\* the key was encrypted with; whether a key that was supplied from outside
\* opens with pass is the environment's (decryptOK)
CAFails(d, pass, decryptOK) ==
    \/ \E n \in FileNames : ~Exists(d, n) \/ d.files[n].data = NoData
    \/ IF d.files["ca.key"].data.origin = "gen"
       THEN d.files["ca.key"].data.pass # pass
       ELSE ~decryptOK

(***************************************************************************)
(* The signer chain.  A chain is the sequence of its stages, outermost     *)
(* first; wrapping a signer puts a stage in front of it.                   *)
(***************************************************************************)
Stage(kind, secret) == [kind |-> kind, secret |-> secret]
Wrap(stage, inner) == <<stage>> \o inner

\* faulty variant: the challenge policy is wrapped around the verifier policy
NewSignerChain_ChallengeOutside(challenge, hasVerifier) ==
    LET depotSigner == <<Stage("depot", "")>>
        verified == IF hasVerifier
                    THEN Wrap(Stage("verifier", ""), depotSigner)
                    ELSE depotSigner
    IN  IF challenge # ""
        THEN Wrap(Stage("challenge", challenge), verified)
        ELSE verified

\* faulty variant: the challenge policy is left out
NewSignerChain_NoChallenge(challenge, hasVerifier) ==
    LET depotSigner == <<Stage("depot", "")>>
    IN  IF hasVerifier
        THEN Wrap(Stage("verifier", ""), depotSigner)
        ELSE depotSigner

\* main, lines 192-198
NewSignerChain(challenge, hasVerifier) ==
    LET depotSigner == <<Stage("depot", "")>>
        challenged == IF challenge # ""
                      THEN Wrap(Stage("challenge", challenge), depotSigner)
                      ELSE depotSigner
    IN  IF hasVerifier
        THEN Wrap(Stage("verifier", ""), challenged)
        ELSE challenged

\* A signing request: its challenge attribute, what the external verifier
\* answers for its CSR, and whether the depot signer can sign it.
Requests ==
    [challenge : {"", "secret", "wrong"},
     verdict : {"accept", "reject", "error"},
     signable : BOOLEAN]

\* SignCSR on a chain: the stages evaluated, in order, and the result.
\* csrverifier.Middleware rejects unless the verifier accepts;
\* ChallengeMiddleware rejects unless the challenge equals the secret;
\* the depot signer signs or fails.
RECURSIVE SignCSR(_, _)
SignCSR(ch, req) ==
    LET st == Head(ch)
        inner == SignCSR(Tail(ch), req)
        forward == [stages |-> <<st.kind>> \o inner.stages,
                    result |-> inner.result]
    IN  CASE st.kind = "verifier" ->
                 IF req.verdict = "accept" THEN forward
                 ELSE [stages |-> <<"verifier">>,
                       result |-> IF req.verdict = "error"
                                  THEN "verifier error"
                                  ELSE "CSR verify failed"]
          [] st.kind = "challenge" ->
                 IF req.challenge = st.secret THEN forward
                 ELSE [stages |-> <<"challenge">>,
                       result |-> "invalid challenge"]
          [] OTHER ->
                 [stages |-> <<"depot">>,
                  result |-> IF req.signable THEN "signed"
                             ELSE "signing failed"]

(***************************************************************************)
(* The runs made against one depot: the ca subcommand (main, lines 39-43)  *)
(* and the destructive wipe of a server start with -delete-ca.             *)
(***************************************************************************)
\* the passwords a caller can set (the default is the empty one)
Passwords == {"", "pw"}

MaterialFlags == {"inlineCert", "inlineKey", "pathCert", "pathKey"}

\* the flags a caller can pass: each material flag empty or the run's
\* material, and -key-password / SCEP_CA_PASSWORD, which only the generate
\* branch reads (line 288)
CaInputs ==
    { in \in [inlineCert : 0..NumMaterials, inlineKey : 0..NumMaterials,
              pathCert : 0..NumMaterials, pathKey : 0..NumMaterials,
              keyPassword : Passwords] :
        /\ \E m \in 1..NumMaterials :
              \A k \in MaterialFlags : in[k] \in {0, m}
        /\ (inlineSelected(in) \/ pathSelected(in)) => in.keyPassword = "" }

\* the steps the environment can make fail in a run of each strategy
\* (os.MkdirAll can fail only for the first artifact, while the directory
\* is absent)
Faults(strategy) ==
    {NoFault} \cup
    CASE strategy = "inline" ->
             {<<"mkdir", "ca.pem">>, <<"write", "ca.pem">>,
              <<"write", "ca.key">>}
      [] strategy = "path" ->
             {<<"mkdir", "ca.pem">>, <<"read", "ca.pem">>,
              <<"write", "ca.pem">>, <<"read", "ca.key">>,
              <<"write", "ca.key">>}
      [] OTHER ->
             {<<"mkdir", "ca.key">>, <<"keygen", "ca.key">>,
              <<"encrypt", "ca.key">>, <<"encode", "ca.key">>,
              <<"selfsign", "ca.pem">>, <<"write", "ca.pem">>}

NoInput ==
    [inlineCert |-> 0, inlineKey |-> 0, pathCert |-> 0, pathKey |-> 0,
     keyPassword |-> ""]

Event(kind, in, f, strategy, status, err, before, after) ==
    [kind |-> kind, in |-> in, fault |-> f, strategy |-> strategy,
     status |-> status, err |-> err, before |-> before, after |-> after]

NoEvent ==
    Event("none", NoInput, NoFault, "none", 0, "nil",
          EmptyDepot(FALSE), EmptyDepot(FALSE))

HasArtifact(d) == \E n \in FileNames : Exists(d, n)

\* what is remembered of the run before the last one
Summary(ev) ==
    [kind |-> ev.kind, strategy |-> ev.strategy, status |-> ev.status,
     clean |-> ~HasArtifact(ev.before)]

\* os.RemoveAll(depot)
RemoveAll(d) == EmptyDepot(FALSE)

caVars == <<runs, last, prev>>
mainVars == <<cfg, pc, exitCode, httpAddr, opts, errs, pcSrv, pcSig, sigs, cause>>
signVars == <<served, lastReq, lastSign>>
vars == <<depot, root, caVars, mainVars, chain, signVars>>

(***************************************************************************)
(* Values of the variables a specification does not use.                   *)
(***************************************************************************)
NoCfg ==
    [sub |-> "none", version |-> FALSE, addrFlag |-> Unset,
     addrEnv |-> Unset, portFlag |-> Unset, portEnv |-> Unset,
     capassFlag |-> Unset, capassEnv |-> Unset]

\* what main has read and decided so far; flInitCA, flClAllowRenewal and
\* flClDuration hold the values as read, initCA whether main called caMain,
\* failed the step at which main gave up, found the depot as the process
\* found it
NoOpts ==
    [found |-> EmptyDepot(FALSE),
     deleteCA |-> FALSE, flInitCA |-> Unset, initCA |-> FALSE,
     flClAllowRenewal |-> Unset, allowRenewal |-> -1,
     flClDuration |-> Unset, clientValidity |-> -1,
     verifier |-> FALSE, challenge |-> "", failed |-> "none"]

NoRequest == [challenge |-> "", verdict |-> "none", signable |-> FALSE]
NoSign == [stages |-> <<>>, result |-> "none"]

CAIdle == runs = 0 /\ last = NoEvent /\ prev = Summary(NoEvent)

MainIdle ==
    /\ cfg = NoCfg /\ pc = "none" /\ exitCode = -1 /\ httpAddr = ""
    /\ opts = NoOpts /\ errs = <<>> /\ pcSrv = "none" /\ pcSig = "none"
    /\ sigs = 0 /\ cause = "none"

SignIdle == served = 0 /\ lastReq = NoRequest /\ lastSign = NoSign

(***************************************************************************)
(* SpecCA: the runs made against one depot, one after the other: the ca    *)
(* subcommand (main, lines 39-43) and the destructive wipe of a server     *)
(* start with -delete-ca (lines 127-132).                                  *)
(***************************************************************************)
InitCA ==
    /\ depot \in {EmptyDepot(FALSE), EmptyDepot(TRUE)}
    /\ root \in BOOLEAN
    /\ CAIdle /\ MainIdle /\ chain = <<>> /\ SignIdle

\* scepserver ca <flags>: os.Exit(caMain(...))
CaRun ==
    /\ runs < MaxRuns
    /\ \E in \in CaInputs :
       \E f \in Faults(caMain(depot, in, NoFault, runs + 1, root).strategy) :
         LET r == caMain(depot, in, f, runs + 1, root) IN
         /\ depot' = r.d
         /\ last' = Event("ca", in, f, r.strategy, r.status, r.err,
                          depot, r.d)
    /\ prev' = Summary(last)
    /\ runs' = runs + 1
    /\ UNCHANGED <<root, mainVars, chain, signVars>>

DepotWipe ==
    /\ runs < MaxRuns
    /\ depot' = RemoveAll(depot)
    /\ last' = Event("wipe", NoInput, NoFault, "none", 0, "nil",
                     depot, RemoveAll(depot))
    /\ prev' = Summary(last)
    /\ runs' = runs + 1
    /\ UNCHANGED <<root, mainVars, chain, signVars>>

NextCA == CaRun \/ DepotWipe

SpecCA == InitCA /\ [][NextCA]_vars

(***************************************************************************)
(* SpecMain: one process started as scepserver, from os.Args to its exit.  *)
(* cfg holds what main reads first (the subcommand, the version toggle and *)
(* the two address settings); every other flag is drawn where main reads   *)
(* it.                                                                     *)
(***************************************************************************)
Configs ==
    [sub : {"server", "ca"}, version : BOOLEAN,
     addrFlag : Opt({"", "10.0.0.1:9000"}),
     addrEnv : Opt({"", "10.0.0.2:9000"}),
     portFlag : Opt({"", "9001"}),
     portEnv : Opt({"", "9002"}),
     capassFlag : Opt({"pw"}),
     capassEnv : Opt({"pw"})]

\* a depot a fault-free generate run has initialised
GeneratedDepot == caMain(EmptyDepot(FALSE), NoInput, NoFault, 0, FALSE).d

InitMain ==
    /\ depot \in {EmptyDepot(FALSE), EmptyDepot(TRUE), GeneratedDepot}
    /\ root \in BOOLEAN
    /\ CAIdle
    /\ cfg \in Configs
    /\ pc = "start" /\ exitCode = -1 /\ httpAddr = ""
    /\ opts = [NoOpts EXCEPT !.found = depot]
    /\ errs = <<>> /\ pcSrv = "none" /\ pcSig = "none"
    /\ sigs = 0 /\ cause = "none"
    /\ chain = <<>> /\ SignIdle

Exit(code) == pc' = "exit" /\ exitCode' = code

\* lginfo.Log("err", ...) / fmt.Println(...) followed by os.Exit(code)
Fail(step, code) ==
    /\ Exit(code)
    /\ opts' = [opts EXCEPT !.failed = step]

\* flags of the server on the command line that the ca flag set lacks:
\* flag.ExitOnError makes its Parse exit with status 2
UndefinedCaFlag(c) ==
    c.addrFlag # Unset \/ c.portFlag # Unset \/ c.capassFlag # Unset

\* lines 37-45: os.Args[1] == "ca"
CaSubcommand ==
    /\ pc = "start" /\ cfg.sub = "ca"
    /\ \E in \in CaInputs :
       \E f \in Faults(caMain(depot, in, NoFault, 1, root).strategy) :
         LET r == caMain(depot, in, f, 1, root) IN
         IF UndefinedCaFlag(cfg)
         THEN Exit(2) /\ UNCHANGED depot
         ELSE Exit(r.status) /\ depot' = r.d
    /\ UNCHANGED <<root, caVars, cfg, httpAddr, opts, errs, pcSrv, pcSig,
                   sigs, cause, chain, signVars>>

\* lines 72-78: flag.Parse, -version
ParseFlags ==
    /\ pc = "start" /\ cfg.sub = "server"
    /\ IF cfg.version THEN Exit(0)
       ELSE pc' = "resolve" /\ UNCHANGED exitCode
    /\ UNCHANGED <<depot, root, caVars, cfg, httpAddr, opts, errs, pcSrv,
                   pcSig, sigs, cause, chain, signVars>>

\* lines 80-91: -http-addr and -port conflict
ResolveAddr ==
    /\ pc = "resolve"
    /\ LET r == resolveAddr(cfg) IN
       IF r.ok
       THEN /\ httpAddr' = r.addr /\ pc' = "deleteCA"
            /\ UNCHANGED <<exitCode, opts>>
       ELSE Fail("conflict", 1) /\ UNCHANGED httpAddr
    /\ UNCHANGED <<depot, root, caVars, cfg, errs, pcSrv, pcSig,
                   sigs, cause, chain, signVars>>

\* lines 126-132: -delete-ca
DeleteCA ==
    /\ pc = "deleteCA"
    /\ \E flDeleteCA \in BOOLEAN :
         /\ depot' = IF flDeleteCA THEN RemoveAll(depot) ELSE depot
         /\ opts' = [opts EXCEPT !.deleteCA = flDeleteCA]
    /\ pc' = "openDepot"
    /\ UNCHANGED <<root, caVars, cfg, exitCode, httpAddr, errs, pcSrv,
                   pcSig, sigs, cause, chain, signVars>>

\* lines 136-152: open the depot, initialising the CA with -init-ca
OpenDepot ==
    /\ pc = "openDepot"
    /\ \E flInitCA \in BOOLEAN, in \in CaInputs :
       \E f \in Faults(caMain(depot, in, NoFault, runs + 1, root).strategy) :
         LET init == NewFileDepotFails(depot) /\ flInitCA
             r == caMain(depot, in, f, runs + 1, root)
             d == IF init THEN r.d ELSE depot
             o == [opts EXCEPT !.flInitCA = Set(flInitCA), !.initCA = init]
         IN  /\ runs' = IF init THEN runs + 1 ELSE runs
             /\ IF init /\ UndefinedCaFlag(cfg)
                THEN /\ Exit(2) /\ UNCHANGED depot
                     /\ opts' = [o EXCEPT !.failed = "caflags"]
                ELSE /\ depot' = d
                     /\ IF NewFileDepotFails(d)
                        THEN /\ Exit(1)
                             /\ opts' = [o EXCEPT !.failed = "depot"]
                        ELSE /\ pc' = "parseRenewal" /\ UNCHANGED exitCode
                             /\ opts' = o
    /\ UNCHANGED <<root, last, prev, cfg, httpAddr, errs, pcSrv, pcSig, sigs,
                   cause, chain, signVars>>

\* lines 153-157: -allowrenew
ParseRenewal ==
    /\ pc = "parseRenewal"
    /\ \E flClAllowRenewal \in {"14", "0", "two weeks"} :
         LET r == Atoi(flClAllowRenewal) IN
         IF r.ok
         THEN /\ opts' = [opts EXCEPT
                             !.flClAllowRenewal = Set(flClAllowRenewal),
                             !.allowRenewal = r.n]
              /\ pc' = "parseValidity" /\ UNCHANGED exitCode
         ELSE /\ opts' = [opts EXCEPT
                             !.flClAllowRenewal = Set(flClAllowRenewal),
                             !.failed = "renewal"]
              /\ Exit(1)
    /\ UNCHANGED <<depot, root, caVars, cfg, httpAddr, errs, pcSrv, pcSig,
                   sigs, cause, chain, signVars>>

\* lines 158-162: -crtvalid
ParseValidity ==
    /\ pc = "parseValidity"
    /\ \E flClDuration \in {"365", "1y"} :
         LET r == Atoi(flClDuration) IN
         IF r.ok
         THEN /\ opts' = [opts EXCEPT !.flClDuration = Set(flClDuration),
                                      !.clientValidity = r.n]
              /\ pc' = "verifier" /\ UNCHANGED exitCode
         ELSE /\ opts' = [opts EXCEPT !.flClDuration = Set(flClDuration),
                                      !.failed = "validity"]
              /\ Exit(1)
    /\ UNCHANGED <<depot, root, caVars, cfg, httpAddr, errs, pcSrv, pcSig,
                   sigs, cause, chain, signVars>>

\* lines 163-171: -csrverifierexec
NewVerifier ==
    /\ pc = "verifier"
    /\ \E flCSRVerifierExec \in {"", "/usr/local/bin/verify"},
          newOK \in BOOLEAN :
         IF flCSRVerifierExec # "" /\ ~newOK
         THEN Fail("verifier", 1)
         ELSE /\ opts' = [opts EXCEPT !.verifier = (flCSRVerifierExec # "")]
              /\ pc' = "service" /\ UNCHANGED exitCode
    /\ UNCHANGED <<depot, root, caVars, cfg, httpAddr, errs, pcSrv, pcSig,
                   sigs, cause, chain, signVars>>

\* lines 173-205: load the CA, compose the signer and the service
BuildService ==
    /\ pc = "service"
    /\ \E decryptOK \in BOOLEAN, flChallengePassword \in {"", "secret"},
          newServiceOK \in BOOLEAN :
         IF CAFails(depot, flCAPass(cfg), decryptOK)
         THEN Fail("depot.CA", 1) /\ UNCHANGED chain
         ELSE IF ~newServiceOK
         THEN Fail("NewService", 1) /\ UNCHANGED chain
         ELSE /\ opts' = [opts EXCEPT !.challenge = flChallengePassword]
              /\ chain' = NewSignerChain(flChallengePassword, opts.verifier)
              /\ pc' = "launch" /\ UNCHANGED exitCode
    /\ UNCHANGED <<depot, root, caVars, cfg, httpAddr, errs, pcSrv, pcSig,
                   sigs, cause, signVars>>

(***************************************************************************)
(* The launcher: main, lines 215-238.                                      *)
(***************************************************************************)
\* faulty variant: a result channel with room for one result only
ErrsCap_One == 2 - 1

\* errs := make(chan error, 2)
ErrsCap == 2

\* a send on the result channel proceeds while the buffer has room (no
\* receiver is waiting before main reaches line 238, and a send that finds
\* main waiting there is the send into the empty buffer)
CanSend(ch) == Len(ch) < ErrsCap

\* the process runs its goroutines from the go statements until it exits
Launched == pc \in {"launch2", "wait"}

\* lines 216-231: make the channel, start the listener / adapter goroutine
Launch ==
    /\ pc = "launch"
    /\ errs' = <<>>
    /\ pcSrv' = "start"
    /\ pc' = "launch2"
    /\ UNCHANGED <<depot, root, caVars, cfg, exitCode, httpAddr, opts, pcSig,
                   sigs, cause, chain, signVars>>

\* lines 232-236: start the signal-watcher goroutine
LaunchWatcher ==
    /\ pc = "launch2"
    /\ pcSig' = "start"
    /\ pc' = "wait"
    /\ UNCHANGED <<depot, root, caVars, cfg, exitCode, httpAddr, opts, errs,
                   pcSrv, sigs, cause, chain, signVars>>

\* line 218: -lambda selects the adapter, else the listener
SrvStart ==
    /\ Launched /\ pcSrv = "start"
    /\ \E flLambda \in BOOLEAN :
         pcSrv' = IF flLambda THEN "lambda" ELSE "listen"
    /\ UNCHANGED <<depot, root, caVars, cfg, pc, exitCode, httpAddr, opts,
                   errs, pcSig, sigs, cause, chain, signVars>>

\* line 229: http.ListenAndServe returns (it always returns an error)
ListenReturns ==
    /\ Launched /\ pcSrv = "listen"
    /\ pcSrv' = "send"
    /\ UNCHANGED <<depot, root, caVars, cfg, pc, exitCode, httpAddr, opts,
                   errs, pcSig, sigs, cause, chain, signVars>>

\* line 229: errs <- the listener's error
SrvSend ==
    /\ Launched /\ pcSrv = "send"
    /\ CanSend(errs)
    /\ errs' = Append(errs, "listener")
    /\ pcSrv' = "done"
    /\ UNCHANGED <<depot, root, caVars, cfg, pc, exitCode, httpAddr, opts,
                   pcSig, sigs, cause, chain, signVars>>

\* line 226: lambda.Start does not return; when the runtime loop fails it
\* ends the process itself (log.Fatal), and nothing is sent on errs
LambdaFatal ==
    /\ Launched /\ pcSrv = "lambda"
    /\ Exit(1)
    /\ UNCHANGED <<depot, root, caVars, cfg, httpAddr, opts, errs, pcSrv,
                   pcSig, sigs, cause, chain, signVars>>

\* lines 233-234: c := make(chan os.Signal); signal.Notify(c, SIGINT)
SigNotify ==
    /\ Launched /\ pcSig = "start"
    /\ pcSig' = "registered"
    /\ UNCHANGED <<depot, root, caVars, cfg, pc, exitCode, httpAddr, opts,
                   errs, pcSrv, sigs, cause, chain, signVars>>

\* line 235: the goroutine blocks in <-c
SigWait ==
    /\ Launched /\ pcSig = "registered"
    /\ pcSig' = "recv"
    /\ UNCHANGED <<depot, root, caVars, cfg, pc, exitCode, httpAddr, opts,
                   errs, pcSrv, sigs, cause, chain, signVars>>

\* A SIGINT reaches the process.  Before signal.Notify the default action
\* ends the process; afterwards os/signal offers the signal to c without
\* blocking: the unbuffered c takes it only while the watcher waits in <-c.
Interrupt ==
    /\ Launched /\ sigs < MaxSignals
    /\ sigs' = sigs + 1
    /\ IF pcSig \in {"none", "start"}
       THEN pc' = "killed" /\ UNCHANGED <<exitCode, pcSig>>
       ELSE /\ pcSig' = IF pcSig = "recv" THEN "send" ELSE pcSig
            /\ UNCHANGED <<pc, exitCode>>
    /\ UNCHANGED <<depot, root, caVars, cfg, httpAddr, opts, errs, pcSrv,
                   cause, chain, signVars>>

\* line 235: errs <- the signal
SigSend ==
    /\ Launched /\ pcSig = "send"
    /\ CanSend(errs)
    /\ errs' = Append(errs, "interrupt")
    /\ pcSig' = "done"
    /\ UNCHANGED <<depot, root, caVars, cfg, pc, exitCode, httpAddr, opts,
                   pcSrv, sigs, cause, chain, signVars>>

\* faulty variant: main takes the newest result instead of the oldest
MainRecv_Last ==
    /\ pc = "wait" /\ errs # <<>>
    /\ cause' = errs[Len(errs)]
    /\ errs' = SubSeq(errs, 1, Len(errs) - 1)
    /\ pc' = "terminated"
    /\ exitCode' = 0
    /\ UNCHANGED <<depot, root, caVars, cfg, httpAddr, opts, pcSrv, pcSig,
                   sigs, chain, signVars>>

\* line 238: main logs the first result and returns
MainRecv ==
    /\ pc = "wait" /\ errs # <<>>
    /\ cause' = Head(errs)
    /\ errs' = Tail(errs)
    /\ pc' = "terminated"
    /\ exitCode' = 0
    /\ UNCHANGED <<depot, root, caVars, cfg, httpAddr, opts, pcSrv, pcSig,
                   sigs, chain, signVars>>

NextMain ==
    \/ CaSubcommand \/ ParseFlags \/ ResolveAddr \/ DeleteCA \/ OpenDepot
    \/ ParseRenewal \/ ParseValidity \/ NewVerifier \/ BuildService
    \/ Launch \/ LaunchWatcher \/ SrvStart \/ ListenReturns \/ SrvSend
    \/ LambdaFatal \/ SigNotify \/ SigWait \/ Interrupt \/ SigSend
    \/ MainRecv

SpecMain == InitMain /\ [][NextMain]_vars

\* The Go scheduler runs every runnable goroutine: a step of main or of one
\* of its two goroutines that stays enabled is eventually taken.  The
\* listener's failure, the adapter's failure and the arrival of a SIGINT
\* are the environment's and are not forced.
SpecMainFair ==
    /\ SpecMain
    /\ WF_vars(LaunchWatcher) /\ WF_vars(MainRecv)
    /\ WF_vars(SrvStart) /\ WF_vars(SrvSend)
    /\ WF_vars(SigNotify) /\ WF_vars(SigWait) /\ WF_vars(SigSend)

(***************************************************************************)
(* SpecSigner: signing requests served by a signer chain that main         *)
(* composed.                                                               *)
(***************************************************************************)
InitSigner ==
    /\ depot = GeneratedDepot /\ root = FALSE
    /\ CAIdle /\ SignIdle
    /\ cfg = NoCfg /\ pc = "serving" /\ exitCode = -1 /\ httpAddr = ""
    /\ errs = <<>> /\ pcSrv = "none" /\ pcSig = "none"
    /\ sigs = 0 /\ cause = "none"
    /\ \E flChallengePassword \in {"", "secret"}, hasVerifier \in BOOLEAN :
         /\ opts = [NoOpts EXCEPT !.challenge = flChallengePassword,
                                  !.verifier = hasVerifier]
         /\ chain = NewSignerChain(flChallengePassword, hasVerifier)

\* the service's enrollment operation calls signer.SignCSR
HandleCSR ==
    /\ served < MaxRequests
    /\ \E req \in Requests :
         /\ lastReq' = req
         /\ lastSign' = SignCSR(chain, req)
    /\ served' = served + 1
    /\ UNCHANGED <<depot, root, caVars, mainVars, chain>>

NextSigner == HandleCSR

SpecSigner == InitSigner /\ [][NextSigner]_vars

(***************************************************************************)
(* Claims about the CA bootstrap, checked under SpecCA.                    *)
(***************************************************************************)
IsCa(ev) == ev.kind = "ca"

\* C3: when a generate run that succeeded is followed by another generate
\* run against the same depot, the second run returns 1 with an
\* already-exists error and leaves ca.key and ca.pem exactly as they were.
C3_SecondGenerateFails ==
    (IsCa(last) /\ last.strategy = "generate"
        /\ prev.kind = "ca" /\ prev.strategy = "generate" /\ prev.status = 0)
    => /\ last.status = 1
       /\ last.err = "EEXIST"
       /\ last.after.files = last.before.files

C3_Witness ==
    /\ IsCa(last) /\ last.strategy = "generate" /\ last.fault = NoFault
    /\ prev.kind = "ca" /\ prev.strategy = "generate" /\ prev.status = 0
    /\ Exists(depot, "ca.key") /\ Exists(depot, "ca.pem")
    /\ depot.files["ca.key"].by = 1 /\ depot.files["ca.pem"].by = 1
    /\ last.status = 1

\* C4: a bootstrap run of any strategy never changes an artifact that
\* existed before the run.
C4_ExistingArtifactUnchanged ==
    IsCa(last) =>
        \A n \in FileNames :
            Exists(last.before, n)
            => last.after.files[n] = last.before.files[n]

\* C5: when createKey or storeFileInDepot fails at a step after it created
\* its artifact (key generation, encryption, encoding, write), the artifact
\* does not exist when the run returns.
C5_FailedWriteRemoved ==
    (IsCa(last) /\ last.strategy \in {"inline", "generate"}
        /\ last.err \in {"keygen", "encrypt", "encode", "write"})
    => ~Exists(last.after, last.fault[2])

\* C6: after a bootstrap run that started from a depot without artifacts
\* and failed, a following fault-free bootstrap run succeeds.
C6_RetryAfterFailure ==
    (IsCa(last) /\ last.fault = NoFault
        /\ prev.kind = "ca" /\ prev.clean /\ prev.status = 1)
    => last.status = 0

\* C7: each bootstrap run executes the one strategy chosen by priority
\* (inline if both inline inputs are present, else path copy if both path
\* inputs are present, else generate), and every artifact the run wrote
\* holds that strategy's material.
OriginOf(strategy) ==
    CASE strategy = "inline" -> "inline"
      [] strategy = "path" -> "path"
      [] OTHER -> "gen"

C7_Expected(in) ==
    IF in.inlineCert # 0 /\ in.inlineKey # 0 THEN "inline"
    ELSE IF in.pathCert # 0 /\ in.pathKey # 0 THEN "path"
    ELSE "generate"

C7_StrategyByPriority ==
    IsCa(last) =>
        /\ last.strategy = C7_Expected(last.in)
        /\ \A n \in FileNames :
              (Exists(last.after, n)
                  /\ last.after.files[n] # last.before.files[n])
              => last.after.files[n].data.origin
                     \in {"none", OriginOf(C7_Expected(last.in))}

C7_Witness ==
    /\ IsCa(last) /\ last.status = 0 /\ last.strategy = "generate"
    /\ last.in.inlineCert # 0 /\ last.in.inlineKey = 0
    /\ last.in.pathKey # 0 /\ last.in.pathCert = 0
    /\ depot.files["ca.key"].data.origin = "gen"
    /\ depot.files["ca.pem"].data.origin = "gen"

\* the permission bits of group and other are all clear
OwnerOnly(perm) == perm % 64 = 0

AddrUserSet == cfg.addrFlag # Unset \/ cfg.addrEnv # Unset
PortUserSet == cfg.portFlag # Unset \/ cfg.portEnv # Unset

\* the listener, the adapter or the signal watcher has been started
TaskStarted == pcSrv # "none" \/ pcSig # "none"

AddrResolved ==
    /\ cfg.sub = "server" /\ ~cfg.version
    /\ ~(AddrUserSet /\ PortUserSet)
    /\ pc \notin {"start", "resolve"}

\* the address / port the user set: the command line's, else the
\* environment's
UserAddr == IF cfg.addrFlag # Unset THEN cfg.addrFlag[1] ELSE cfg.addrEnv[1]
UserPort == IF cfg.portFlag # Unset THEN cfg.portFlag[1] ELSE cfg.portEnv[1]

\* C2 as stated: ":8080" when neither is user-set, the address when only
\* the address is user-set, ":" and the port when only the port is user-set.
C2_ResolvedAsStated ==
    AddrResolved =>
        httpAddr = IF AddrUserSet THEN UserAddr
                   ELSE IF PortUserSet THEN ":" \o UserPort
                   ELSE ":8080"

\* C2, amended: as stated, except that a port variable exported empty (and
\* no -port flag) resolves to the default ":8080".
C2_Resolved ==
    AddrResolved =>
        httpAddr = IF AddrUserSet THEN UserAddr
                   ELSE IF PortUserSet /\ UserPort # "" THEN ":" \o UserPort
                   ELSE IF cfg.portFlag # Unset THEN ":"
                   ELSE ":8080"

C2_Witness ==
    /\ AddrResolved /\ pc = "wait"
    /\ ~AddrUserSet /\ cfg.portFlag = Unset /\ cfg.portEnv = Set("9002")
    /\ httpAddr = ":9002"

\* the execution-mode task has its outcome: the listener returned, or the
\* adapter ended the process
SrvOutcome ==
    \/ pcSrv \in {"send", "done"}
    \/ pcSrv = "lambda" /\ pc = "exit"

\* C10 as stated: in both modes the execution-mode task reports its
\* outcome on the result channel, and no send on the channel blocks.
C10_BothModesReport ==
    /\ SrvOutcome => pcSrv \in {"send", "done"}
    /\ pcSrv = "send" => CanSend(errs)
    /\ pcSig = "send" => CanSend(errs)

\* C10, amended: the listener and the signal watcher report on the result
\* channel and neither send ever blocks, whatever main has consumed; the
\* serverless adapter never sends on the channel.
C10_SendsNeverBlock ==
    /\ pcSrv = "send" => CanSend(errs)
    /\ pcSig = "send" => CanSend(errs)
    /\ pcSrv = "lambda" => \A i \in 1..Len(errs) : errs[i] # "listener"
    /\ pcSrv = "done" <=> (cause = "listener"
                           \/ \E i \in 1..Len(errs) : errs[i] = "listener")
    /\ pcSig = "done" <=> (cause = "interrupt"
                           \/ \E i \in 1..Len(errs) : errs[i] = "interrupt")

C10_Witness ==
    /\ pc = "wait" /\ pcSrv = "done" /\ pcSig = "done"
    /\ Len(errs) = 2

\* the decimal integers among the day counts a caller can pass
IsInteger(str) == str \in {"0", "14", "365"}

DaysRejected(read) == read # Unset /\ ~IsInteger(read[1])

ConfigError ==
    pc = "exit" /\ opts.failed \in {"conflict", "renewal", "validity"}

DepotAtOpen == IF opts.deleteCA THEN RemoveAll(opts.found) ELSE opts.found

HoldsNoKeys(d) == ~Exists(d, "ca.key") /\ ~Exists(d, "ca.pem")
HoldsKeys(d) == Exists(d, "ca.key") /\ Exists(d, "ca.pem")

\* C15: a server start calls the bootstrap at most once; once main has
\* read -init-ca, the bootstrap was called if the toggle is set and the
\* depot held neither ca.key nor ca.pem (whether or not its directory
\* existed), and was not called if the depot held both or the toggle is
\* not set.
C15_InitWhenNoKeys ==
    /\ runs <= 1 /\ (opts.initCA <=> runs = 1)
    /\ opts.flInitCA # Unset
       => /\ (opts.flInitCA = Set(TRUE) /\ HoldsNoKeys(DepotAtOpen))
             => opts.initCA
          /\ HoldsKeys(DepotAtOpen) => ~opts.initCA
          /\ opts.flInitCA = Set(FALSE) => ~opts.initCA

\* this start generated the CA: both artifacts are the bootstrap's
SelfGenerated ==
    /\ opts.initCA
    /\ \A n \in FileNames :
          /\ Exists(depot, n) /\ depot.files[n].by = 1
          /\ depot.files[n].data.origin = "gen"

\* C17: when a server start generated the CA, the password ca.key was
\* encrypted with is the password main opens the CA with, and the start
\* does not fail at opening the CA.
C17_SamePassphrase ==
    SelfGenerated
    => /\ depot.files["ca.key"].data.pass = flCAPass(cfg)
       /\ opts.failed # "depot.CA"

(***************************************************************************)
(* Claims about the launcher's lifetime, checked under SpecMainFair.       *)
(***************************************************************************)
Running == Launched

\* main leaves Running by logging the oldest result on errs and returning
LeavesByFirstOutcome ==
    /\ pc = "wait" /\ pc' = "terminated"
    /\ errs # <<>>
    /\ cause' = Head(errs) /\ errs' = Tail(errs)

\* a listener failure or a received signal is on its way to errs
OutcomePending == Running /\ (pcSrv = "send" \/ pcSig = "send")

\* C11: once Running, the launcher leaves Running only by consuming the
\* first outcome placed on the result channel, which it records as the
\* termination cause, and a listener failure or a reported signal always
\* eventually leads to Terminated.
C11_LeavesOnlyByOutcome ==
    /\ [][(Running /\ ~Running') => LeavesByFirstOutcome]_vars
    /\ (OutcomePending ~> pc = "terminated")

\* C11, amended: once Running, the launcher leaves Running by consuming
\* the first outcome placed on the result channel, which it records as the
\* termination cause without waiting for the other producer; the process
\* also ends, with nothing consumed, when the serverless adapter fails
\* (exit 1) or when a SIGINT arrives before the watcher has registered.
\* A listener failure or a reported signal always eventually leads to
\* Terminated unless the process ends first in one of these two ways.
C11_Lifetime ==
    /\ [][(Running /\ ~Running')
            => \/ LeavesByFirstOutcome
               \/ /\ pcSrv = "lambda" /\ pc' = "exit" /\ exitCode' = 1
                  /\ cause' = cause /\ errs' = errs
               \/ /\ pcSig \in {"none", "start"} /\ pc' = "killed"
                  /\ sigs' = sigs + 1
                  /\ cause' = cause /\ errs' = errs]_vars
    /\ (OutcomePending
           ~> \/ pc \in {"terminated", "killed"}
              \/ pc = "exit" /\ pcSrv = "lambda")

C11_Witness ==
    /\ pc = "terminated" /\ cause = "listener"
    /\ pcSig = "send" /\ errs = <<>>

\* a SIGINT reaches the process while the watcher is registered and has
\* not received one yet
DeliveredToWatcher ==
    sigs' = sigs + 1 /\ pcSig \in {"registered", "recv"}

\* C18: a SIGINT delivered after the watcher has registered is received
\* by the watcher, which then reports it on the result channel.
C18_NoInterruptLost == [][DeliveredToWatcher => pcSig' = "send"]_vars

(***************************************************************************)
(* Claims about the signer chain, checked under SpecSigner.                *)
(***************************************************************************)
Evaluated(kind) == \E i \in 1..Len(lastSign.stages) : lastSign.stages[i] = kind

IsPrefix(p, q) == Len(p) <= Len(q) /\ \A i \in 1..Len(p) : p[i] = q[i]

\* C8: with a challenge secret and a verifier configured, the stages run
\* in the order verifier, challenge, depot, and a request the verifier
\* rejects or errors on reaches neither the challenge comparison nor the
\* depot signer.
C8_VerifierFirst ==
    (served > 0 /\ opts.challenge # "" /\ opts.verifier)
    => /\ IsPrefix(lastSign.stages, <<"verifier", "challenge", "depot">>)
       /\ lastReq.verdict # "accept"
          => /\ lastSign.stages = <<"verifier">>
             /\ lastSign.result \in {"CSR verify failed", "verifier error"}

C8_Witness ==
    /\ served > 0 /\ opts.challenge # "" /\ opts.verifier
    /\ lastReq.verdict = "reject" /\ lastReq.challenge = opts.challenge
    /\ ~Evaluated("challenge") /\ ~Evaluated("depot")

\* C9: the depot signer is invoked only for requests that passed every
\* configured policy stage; with a challenge secret and no verifier, a
\* request with another challenge is rejected without the depot signer.
C9_DepotAfterPolicies ==
    served > 0
    => /\ Evaluated("depot")
          => /\ opts.verifier => lastReq.verdict = "accept"
             /\ opts.challenge # "" => lastReq.challenge = opts.challenge
       /\ (opts.challenge # "" /\ ~opts.verifier
              /\ lastReq.challenge # opts.challenge)
          => /\ lastSign.result = "invalid challenge"
             /\ ~Evaluated("depot")

C9_Witness ==
    /\ served > 0 /\ opts.challenge = "secret" /\ ~opts.verifier
    /\ lastReq.challenge = "wrong" /\ lastReq.signable
    /\ lastSign.result = "invalid challenge" /\ ~Evaluated("depot")

====
